---- MODULE Spec2Model ----
(***************************************************************************)
(* Model of src/main.py: WebPageFetcher, a page mirroring tool.            *)
(*                                                                         *)
(* Python strings (URLs, attribute values, file-system paths) are          *)
(* sequences of tokens: the separator "/", the query mark "?", the scheme  *)
(* token "http:" and opaque name tokens such as "a" or "x.html".  The      *)
(* string functions of the code (str.lstrip, os.path.dirname,              *)
(* os.path.basename, os.path.join, urlparse, urljoin) are operators on     *)
(* such sequences, written after the library code they stand for.          *)
(***************************************************************************)
EXTENDS Integers, Sequences, FiniteSets, TLC

VARIABLES
    urls,           \* download_and_print_metadata: the argument urls
    with_metadata,  \* download_and_print_metadata: the argument with_metadata
    main_pc,        \* position of the calling thread in download_and_print_metadata
    main_i,         \* its loop index (spawn loop, then join loop)
    pc,             \* position of every thread: <<t, 0>> runs process_url, <<t, k>> download_asset
    result,         \* per thread: the value fetch_content returned (html_content / asset_content)
    content,        \* per process_url thread: save_to_file's local content after rewriting
    file_name,      \* per process_url thread: save_to_file's local file_name
    tag_list,       \* per process_url thread: the list save_to_file iterates (indices into content)
    loop_i,         \* per process_url thread: index of save_to_file's spawn loop / join loop
    asset_url,      \* per download_asset thread: its asset_url argument
    lock,           \* self.lock: the holder, or None
    metadata,       \* self.metadata
    clock,          \* datetime.utcnow(): logical time, one tick per get_metadata call
    writing,        \* the threads that are inside a print call on the console
    console,        \* the lines printed so far
    dirs,           \* the directories made on disk, each with the thread that made it
    disk,           \* the files on disk: one record per path, holding what was last written
    fn,             \* the last direct call of a pure method and its result
    computed        \* per process_url thread: the dict its get_metadata call built

vars == <<urls, with_metadata, main_pc, main_i, pc, result, content, file_name,
          tag_list, loop_i, asset_url, lock, metadata, clock, writing, console,
          dirs, disk, fn, computed>>

\* Python's None, and a value that is not None.
None == [none |-> TRUE, val |-> <<>>]
Some(v) == [none |-> FALSE, val |-> v]

-----------------------------------------------------------------------------
(* Strings as token sequences.                                             *)

SL == "/"
QM == "?"

\* The least index of s holding a token of S, Len(s) + 1 when there is none.
FirstIdx(s, S) ==
    IF \E i \in 1..Len(s) : s[i] \in S
    THEN CHOOSE i \in 1..Len(s) : s[i] \in S /\ \A j \in 1..(i - 1) : s[j] \notin S
    ELSE Len(s) + 1

\* str.rfind('/') + 1: the index of the last "/" of s, 0 when there is none.
LastSlash(s) ==
    IF \E i \in 1..Len(s) : s[i] = SL
    THEN CHOOSE i \in 1..Len(s) : s[i] = SL /\ \A j \in (i + 1)..Len(s) : s[j] # SL
    ELSE 0

\* s[i:] and s[:i] of Python (1-based here).
From(s, i) == SubSeq(s, i, Len(s))
Upto(s, i) == SubSeq(s, 1, i)

AllSlashes(s) == \A i \in 1..Len(s) : s[i] = SL

\* A mutation of LStrip: nothing is stripped.
LStripNothing(s) == s

\* str.lstrip('/'): every leading "/" is removed.
LStrip(s) == From(s, FirstIdx(s, {s[i] : i \in 1..Len(s)} \ {SL}))

\* str.rstrip('/'): every trailing "/" is removed.
RStrip(s) ==
    IF AllSlashes(s) THEN <<>>
    ELSE Upto(s, CHOOSE i \in 1..Len(s) : s[i] # SL /\ \A j \in (i + 1)..Len(s) : s[j] = SL)

\* posixpath.dirname
Dirname(p) ==
    LET head == Upto(p, LastSlash(p))
    IN  IF head # <<>> /\ ~AllSlashes(head) THEN RStrip(head) ELSE head

\* posixpath.basename
Basename(p) == From(p, LastSlash(p) + 1)

\* posixpath.join of two components
PathJoin(a, b) ==
    IF b # <<>> /\ b[1] = SL THEN b
    ELSE IF a = <<>> \/ a[Len(a)] = SL THEN a \o b
    ELSE a \o <<SL>> \o b

\* str.split('/'): the segments of s, one more than s has separators.
RECURSIVE Split(_)
Split(s) ==
    LET i == FirstIdx(s, {SL})
    IN  IF i > Len(s) THEN <<s>> ELSE <<Upto(s, i - 1)>> \o Split(From(s, i + 1))

\* '/'.join(segs)
RECURSIVE JoinSegs(_)
JoinSegs(segs) ==
    IF segs = <<>> THEN <<>>
    ELSE IF Len(segs) = 1 THEN segs[1]
    ELSE segs[1] \o <<SL>> \o JoinSegs(Tail(segs))

\* filter(None, segs): the non-empty segments, in order.
RECURSIVE NonEmpty(_)
NonEmpty(segs) ==
    IF segs = <<>> THEN <<>>
    ELSE IF segs[1] = <<>> THEN NonEmpty(Tail(segs))
    ELSE <<segs[1]>> \o NonEmpty(Tail(segs))

\* os.getcwd()
Getcwd == <<SL, "cwd">>

\* The file the operating system opens for a path string: its non-empty
\* segments, taken from the working directory when the path is relative.
NormPath(p) ==
    IF p # <<>> /\ p[1] = SL THEN NonEmpty(Split(p))
    ELSE NonEmpty(Split(Getcwd)) \o NonEmpty(Split(p))

-----------------------------------------------------------------------------
(* URLs.                                                                   *)

\* urlparse of an absolute URL <<scheme, "/", "/">> \o netloc \o path [\o <<"?">> \o query]
Urlparse(u) ==
    LET rest  == From(u, 4)
        n     == FirstIdx(rest, {SL, QM})
        after == From(rest, n)
        q     == FirstIdx(after, {QM})
    IN  [scheme |-> u[1], netloc |-> Upto(rest, n - 1),
         path |-> Upto(after, q - 1), query |-> From(after, q + 1)]

\* urlparse of a reference without a scheme: [//netloc][path][?query]
UrlparseRef(r) ==
    LET hasNet == Len(r) >= 2 /\ r[1] = SL /\ r[2] = SL
        rest   == IF hasNet THEN From(r, 3) ELSE r
        n      == IF hasNet THEN FirstIdx(rest, {SL, QM}) ELSE 1
        after  == From(rest, n)
        q      == FirstIdx(after, {QM})
    IN  [netloc |-> Upto(rest, n - 1),
         path |-> Upto(after, q - 1), query |-> From(after, q + 1)]

\* urlunparse
Urlunparse(scheme, netloc, path, query) ==
    <<scheme, SL, SL>> \o netloc
      \o (IF path # <<>> /\ path[1] # SL THEN <<SL>> \o path ELSE path)
      \o (IF query # <<>> THEN <<QM>> \o query ELSE <<>>)

\* urljoin(base, url) for a reference url that names no scheme
Urljoin(base, url) ==
    IF url = <<>> THEN base
    ELSE
      LET b == Urlparse(base)
          r == UrlparseRef(url)
          base_parts == LET parts == Split(b.path)
                        IN  IF parts[Len(parts)] # <<>> THEN Upto(parts, Len(parts) - 1)
                            ELSE parts
          joined   == base_parts \o Split(r.path)
          segments == IF r.path[1] = SL THEN Split(r.path)
                      ELSE IF Len(joined) <= 2 THEN joined
                      ELSE <<joined[1]>>
                             \o NonEmpty(SubSeq(joined, 2, Len(joined) - 1))
                             \o <<joined[Len(joined)]>>
          resolved == JoinSegs(segments)
      IN  IF r.netloc # <<>> THEN Urlunparse(b.scheme, r.netloc, r.path, r.query)
          ELSE IF r.path = <<>>
               THEN Urlunparse(b.scheme, b.netloc, b.path,
                               IF r.query # <<>> THEN r.query ELSE b.query)
          ELSE Urlunparse(b.scheme, b.netloc,
                          IF resolved = <<>> THEN <<SL>> ELSE resolved, r.query)

\* WebPageFetcher.get_directory_name
get_directory_name(url) ==
    LET parsed_url == Urlparse(url)
    IN  PathJoin(PathJoin(Getcwd, parsed_url.netloc), LStrip(Dirname(parsed_url.path)))

\* save_to_file: file_name
PageFileName(url) == PathJoin(get_directory_name(url), <<"index.html">>)

\* download_asset: asset_file_path
AssetFilePath(a_url) == PathJoin(get_directory_name(a_url), Basename(a_url))

-----------------------------------------------------------------------------
(* HTML documents.  A document is the sequence of its elements in document *)
(* order; an element has a tag name and the attributes it carries, attrs   *)
(* being a function from the attribute names present to their values.      *)

\* soup.find_all(tags, attr=True): the elements whose tag is in tags and
\* that carry attr (whatever its value, the empty string included), in
\* document order, as indices into the document.
RECURSIVE FindAllFrom(_, _, _, _)
FindAllFrom(doc, tags, attr, i) ==
    IF i > Len(doc) THEN <<>>
    ELSE (IF doc[i].tag \in tags /\ attr \in DOMAIN doc[i].attrs THEN <<i>> ELSE <<>>)
           \o FindAllFrom(doc, tags, attr, i + 1)

\* A mutation of FindAll: the tag name is not looked at.
FindAllAnyTag(doc, tags, attr) ==
    FindAllFrom(doc, {doc[i].tag : i \in 1..Len(doc)}, attr, 1)

FindAll(doc, tags, attr) == FindAllFrom(doc, tags, attr, 1)

\* remove_leading_slash, the loop body: the attribute assigned is href when
\* the element carries one, src otherwise.
StripTag(tag) ==
    LET key == IF "href" \in DOMAIN tag.attrs THEN "href" ELSE "src"
    IN  [tag EXCEPT !.attrs[key] = LStrip(@)]

\* remove_leading_slash, the inner loop over find_all(href) + find_all(src)
RECURSIVE StripEach(_, _)
StripEach(doc, idxs) ==
    IF idxs = <<>> THEN doc
    ELSE StripEach([doc EXCEPT ![idxs[1]] = StripTag(@)], Tail(idxs))

\* WebPageFetcher.remove_leading_slash, the outer loop over tags
RECURSIVE remove_leading_slash(_, _)
remove_leading_slash(doc, tags) ==
    IF tags = <<>> THEN doc
    ELSE remove_leading_slash(
           StripEach(doc, FindAll(doc, {tags[1]}, "href") \o FindAll(doc, {tags[1]}, "src")),
           Tail(tags))

\* save_to_file: the tag names passed to remove_leading_slash and to soup(...)
AssetTags == <<"link", "script", "img">>

\* save_to_file: soup([...], href=True) + soup([...], src=True)
AssetTagList(doc) ==
    LET names == {AssetTags[i] : i \in 1..Len(AssetTags)}
    IN  FindAll(doc, names, "href") \o FindAll(doc, names, "src")

\* save_to_file: tag.get('href') or tag.get('src').  A missing or empty
\* href yields src; a missing src yields Python's None, which urljoin
\* treats as it treats the empty string, so it is the empty string here.
HrefOrSrc(tag) ==
    IF "href" \in DOMAIN tag.attrs /\ tag.attrs["href"] # <<>> THEN tag.attrs["href"]
    ELSE IF "src" \in DOMAIN tag.attrs THEN tag.attrs["src"]
    ELSE <<>>

\* len(soup.find_all(name))
CountTag(doc, name) == Cardinality({i \in 1..Len(doc) : doc[i].tag = name})

\* get_metadata: the dict assigned to self.metadata, as its set of items
ComputeMetadata(html_content, now) ==
    { <<"num_links", CountTag(html_content, "a")>>,
      <<"images", CountTag(html_content, "img")>>,
      <<"last_fetch", now>> }

-----------------------------------------------------------------------------
(* The runs explored: the URL lists given on the command line and the page *)
(* each URL serves.                                                        *)

U1 == <<"http:", SL, SL, "h", SL, "a", SL, "x.html">>
U2 == <<"http:", SL, SL, "h", SL, "a", SL, "y.html">>
U3 == <<"http:", SL, SL, "g">>

\* <link href="/css/s.css"> <img src="i.png"> <a href="/x">
Page1 == << [tag |-> "link", attrs |-> [href |-> <<SL, "css", SL, "s.css">>]],
            [tag |-> "img",  attrs |-> [src |-> <<"i.png">>]],
            [tag |-> "a",    attrs |-> [href |-> <<SL, "x">>]] >>

\* <script href="" src="/j.js">
Page2 == << [tag |-> "script", attrs |-> [href |-> <<>>, src |-> <<SL, "j.js">>]] >>

\* <img src="/logo.png"> <a href="y"> <a href="z">
Page3 == << [tag |-> "img", attrs |-> [src |-> <<SL, "logo.png">>]],
            [tag |-> "a",   attrs |-> [href |-> <<"y">>]],
            [tag |-> "a",   attrs |-> [href |-> <<"z">>]] >>

Web(url) == IF url = U1 THEN Page1 ELSE IF url = U2 THEN Page2 ELSE Page3

UrlLists == { <<U1, U2>>, <<U1, U3>>, <<U3, U3>>, <<U2>> }

\* The bytes a server sends for an asset: something, or an empty body.
Bytes(url) == <<"bytes">> \o url
Bodies(url) == { Bytes(url), <<>> }

\* Whether the file system carries out a write, or refuses it.
FsOutcomes == {TRUE, FALSE}

\* Thread <<t, 0>> runs process_url on urls[t]; thread <<t, k>>, k >= 1, runs
\* download_asset for the k-th entry of the list save_to_file iterates.
MaxUrls == CHOOSE n \in 0..8 : (\A l \in UrlLists : Len(l) <= n) /\ (\E l \in UrlLists : Len(l) = n)
MaxTags == CHOOSE n \in 0..8 :
             /\ \A l \in UrlLists : \A i \in 1..Len(l) : Len(AssetTagList(Web(l[i]))) <= n
             /\ \E l \in UrlLists : \E i \in 1..Len(l) : Len(AssetTagList(Web(l[i]))) = n
PageThreads == {<<t, 0>> : t \in 1..MaxUrls}
AssetThreads == {<<t, k>> : t \in 1..MaxUrls, k \in 1..MaxTags}
Threads == PageThreads \cup AssetThreads
Free == <<0, 0>>

UrlOf(th) == IF th[2] = 0 THEN urls[th[1]] ELSE asset_url[th]

\* A line (or, for the metadata, a block of lines) printed by thread th.
Line(kind, th, url, file, items) ==
    [kind |-> kind, by |-> th, url |-> url, file |-> file, items |-> items]

\* What a file holds: the document written as text, or the bytes written.
HtmlFile(path, th, doc) == [path |-> NormPath(path), by |-> th, html |-> doc, bytes |-> <<>>]
BytesFile(path, th, b) == [path |-> NormPath(path), by |-> th, html |-> <<>>, bytes |-> b]

\* open(path, 'w' or 'wb') followed by write: the file is replaced.
WriteFile(files, f) == {g \in files : g.path # f.path} \cup {f}

Exists(path) == \E f \in disk : f.path = NormPath(path)
FileAt(path) == CHOOSE f \in disk : f.path = NormPath(path)

-----------------------------------------------------------------------------
(* WebPageFetcher.__init__ and the call of download_and_print_metadata.    *)

InitFetcher ==
    /\ main_i = 1
    /\ pc = [th \in Threads |-> "idle"]
    /\ result = [th \in Threads |-> None]
    /\ content = [th \in PageThreads |-> None]
    /\ file_name = [th \in PageThreads |-> None]
    /\ tag_list = [th \in PageThreads |-> <<>>]
    /\ loop_i = [th \in PageThreads |-> 1]
    /\ asset_url = [th \in AssetThreads |-> <<>>]
    /\ lock = Free
    /\ metadata = {}
    /\ clock = 0
    /\ writing = {}
    /\ console = {}
    /\ dirs = {}
    /\ disk = {}
    /\ fn = [op |-> "none"]
    /\ computed = [th \in PageThreads |-> {}]

Init ==
    /\ urls \in UrlLists
    /\ with_metadata \in BOOLEAN
    /\ main_pc = "spawn"
    /\ InitFetcher

\* A mutation of Terminated: join returns at once, whatever the thread does.
TerminatedNoWait(th) == TRUE

\* thread.join() returns when the thread has ended, normally or by an exception.
Terminated(th) == pc[th] \in {"done", "raised"}

\* A mutation of StartProcess: a URL already met earlier in the list gets no
\* thread of its own.
StartProcessDistinct ==
    /\ main_pc = "spawn"
    /\ main_i <= Len(urls)
    /\ pc' = [pc EXCEPT ![<<main_i, 0>>] =
                 IF \E j \in 1..(main_i - 1) : urls[j] = urls[main_i] THEN "idle" ELSE "fetch"]
    /\ main_i' = IF main_i = Len(urls) THEN 1 ELSE main_i + 1
    /\ main_pc' = IF main_i = Len(urls) THEN "join" ELSE "spawn"
    /\ UNCHANGED <<urls, with_metadata, result, content, file_name, tag_list, loop_i,
                   asset_url, lock, metadata, clock, writing, console, dirs, disk, fn, computed>>

\* download_and_print_metadata: the loop that starts one thread per url
StartProcess ==
    /\ main_pc = "spawn"
    /\ main_i <= Len(urls)
    /\ pc' = [pc EXCEPT ![<<main_i, 0>>] = "fetch"]
    /\ main_i' = IF main_i = Len(urls) THEN 1 ELSE main_i + 1
    /\ main_pc' = IF main_i = Len(urls) THEN "join" ELSE "spawn"
    /\ UNCHANGED <<urls, with_metadata, result, content, file_name, tag_list, loop_i,
                   asset_url, lock, metadata, clock, writing, console, dirs, disk, fn, computed>>

\* download_and_print_metadata: the loop that joins the threads
JoinProcess ==
    /\ main_pc = "join"
    /\ main_i <= Len(urls)
    /\ Terminated(<<main_i, 0>>)
    /\ main_i' = main_i + 1
    /\ main_pc' = IF main_i = Len(urls) THEN "done" ELSE "join"
    /\ UNCHANGED <<urls, with_metadata, pc, result, content, file_name, tag_list, loop_i,
                   asset_url, lock, metadata, clock, writing, console, dirs, disk, fn, computed>>

-----------------------------------------------------------------------------
(* fetch_content, called by process_url and by download_asset.             *)

\* A mutation of AfterPageFetch: the page is saved whatever the fetch returned.
AfterPageFetchNoCheck(r) == "save"

\* process_url: if html_content is not None
AfterPageFetch(r) == IF ~r.none THEN "save" ELSE "done"

\* download_asset: if asset_content
AfterAssetFetch(r) == IF ~r.none /\ r.val # <<>> THEN "write" ELSE "done"

AfterFetch(th, r) == IF th[2] = 0 THEN AfterPageFetch(r) ELSE AfterAssetFetch(r)

\* fetch_content, the try block succeeding: response.text or response.content
FetchOk(th) ==
    /\ pc[th] = "fetch"
    /\ \E body \in (IF th[2] = 0 THEN {Web(UrlOf(th))} ELSE Bodies(UrlOf(th))) :
         /\ result' = [result EXCEPT ![th] = Some(body)]
         /\ pc' = [pc EXCEPT ![th] = AfterFetch(th, Some(body))]
    /\ UNCHANGED <<urls, with_metadata, main_pc, main_i, content, file_name, tag_list,
                   loop_i, asset_url, lock, metadata, clock, writing, console, dirs,
                   disk, fn, computed>>

\* fetch_content, a RequestException: the handler starts to print, no lock taken
FetchFail(th) ==
    /\ pc[th] = "fetch"
    /\ pc' = [pc EXCEPT ![th] = "error"]
    /\ writing' = writing \cup {th}
    /\ UNCHANGED <<urls, with_metadata, main_pc, main_i, result, content, file_name,
                   tag_list, loop_i, asset_url, lock, metadata, clock, console, dirs,
                   disk, fn, computed>>

\* fetch_content, the handler: the print ends, None is returned to the caller
FetchError(th) ==
    /\ pc[th] = "error"
    /\ console' = console \cup {Line("error", th, UrlOf(th), <<>>, {})}
    /\ writing' = writing \ {th}
    /\ result' = [result EXCEPT ![th] = None]
    /\ pc' = [pc EXCEPT ![th] = AfterFetch(th, None)]
    /\ UNCHANGED <<urls, with_metadata, main_pc, main_i, content, file_name, tag_list,
                   loop_i, asset_url, lock, metadata, clock, dirs, disk, fn, computed>>

-----------------------------------------------------------------------------
(* process_url and save_to_file, run by thread th = <<t, 0>>.              *)

\* save_to_file up to the first loop: the directory is made, the rewritten
\* content is written to index.html and parsed again for its assets.
SaveIndex(th) ==
    LET url       == urls[th[1]]
        rewritten == remove_leading_slash(result[th].val, AssetTags)
        tags      == AssetTagList(rewritten)
    IN  /\ pc[th] = "save"
        /\ dirs' = dirs \cup {[path |-> NormPath(get_directory_name(url)), by |-> th]}
        /\ file_name' = [file_name EXCEPT ![th] = Some(PageFileName(url))]
        /\ content' = [content EXCEPT ![th] = Some(rewritten)]
        /\ disk' = WriteFile(disk, HtmlFile(PageFileName(url), th, rewritten))
        /\ tag_list' = [tag_list EXCEPT ![th] = tags]
        /\ loop_i' = [loop_i EXCEPT ![th] = 1]
        /\ pc' = [pc EXCEPT ![th] = IF tags = <<>> THEN "report" ELSE "spawn"]
        /\ UNCHANGED <<urls, with_metadata, main_pc, main_i, result, asset_url, lock,
                       metadata, clock, writing, console, fn, computed>>

\* A mutation of StartAsset: save_to_file goes on to its join loop as soon as
\* the first download thread is started.
StartAssetJoinEarly(th) ==
    LET k   == loop_i[th]
        tag == content[th].val[tag_list[th][k]]
    IN  /\ pc[th] = "spawn"
        /\ asset_url' = [asset_url EXCEPT ![<<th[1], k>>] = Urljoin(urls[th[1]], HrefOrSrc(tag))]
        /\ pc' = [pc EXCEPT ![<<th[1], k>>] = "fetch", ![th] = "join"]
        /\ loop_i' = [loop_i EXCEPT ![th] = 1]
        /\ UNCHANGED <<urls, with_metadata, main_pc, main_i, result, content, file_name,
                       tag_list, lock, metadata, clock, writing, console, dirs, disk, fn, computed>>

\* save_to_file, one round of the loop that starts the download threads
StartAsset(th) ==
    LET k   == loop_i[th]
        n   == Len(tag_list[th])
        tag == content[th].val[tag_list[th][k]]
    IN  /\ pc[th] = "spawn"
        /\ asset_url' = [asset_url EXCEPT ![<<th[1], k>>] = Urljoin(urls[th[1]], HrefOrSrc(tag))]
        /\ pc' = [pc EXCEPT ![<<th[1], k>>] = "fetch",
                            ![th] = IF k = n THEN "join" ELSE "spawn"]
        /\ loop_i' = [loop_i EXCEPT ![th] = IF k = n THEN 1 ELSE k + 1]
        /\ UNCHANGED <<urls, with_metadata, main_pc, main_i, result, content, file_name,
                       tag_list, lock, metadata, clock, writing, console, dirs, disk, fn, computed>>

\* save_to_file, one round of the loop that joins the download threads;
\* after the last one save_to_file returns file_name
JoinAsset(th) ==
    LET k == loop_i[th]
        n == Len(tag_list[th])
    IN  /\ pc[th] = "join"
        /\ Terminated(<<th[1], k>>)
        /\ loop_i' = [loop_i EXCEPT ![th] = k + 1]
        /\ pc' = [pc EXCEPT ![th] = IF k = n THEN "report" ELSE "join"]
        /\ UNCHANGED <<urls, with_metadata, main_pc, main_i, result, content, file_name,
                       tag_list, asset_url, lock, metadata, clock, writing, console,
                       dirs, disk, fn, computed>>

\* process_url: with self.lock, entered; print("Downloaded ...") begins
ReportAcquire(th) ==
    /\ pc[th] = "report"
    /\ lock = Free
    /\ lock' = th
    /\ writing' = writing \cup {th}
    /\ pc' = [pc EXCEPT ![th] = "reporting"]
    /\ UNCHANGED <<urls, with_metadata, main_pc, main_i, result, content, file_name,
                   tag_list, loop_i, asset_url, metadata, clock, console, dirs, disk, fn, computed>>

\* process_url: the print ends and the lock is released
ReportRelease(th) ==
    /\ pc[th] = "reporting"
    /\ console' = console \cup {Line("page", th, urls[th[1]], file_name[th].val, {})}
    /\ writing' = writing \ {th}
    /\ lock' = Free
    /\ pc' = [pc EXCEPT ![th] = IF with_metadata THEN "meta" ELSE "done"]
    /\ UNCHANGED <<urls, with_metadata, main_pc, main_i, result, content, file_name,
                   tag_list, loop_i, asset_url, metadata, clock, dirs, disk, fn, computed>>

\* A mutation of StoreMetadata: the dict is updated in place, and a
\* num_links entry it already holds is kept.
StoreMetadataInPlace(old, new) ==
    IF \E kv \in old : kv[1] = "num_links"
    THEN {kv \in old : kv[1] = "num_links"} \cup {kv \in new : kv[1] # "num_links"}
    ELSE new

\* get_metadata: self.metadata = {...}, the attribute is bound to the new dict
StoreMetadata(old, new) == new

\* get_metadata, called by process_url without the lock
GetMetadata(th) ==
    /\ pc[th] = "meta"
    /\ clock' = clock + 1
    /\ computed' = [computed EXCEPT ![th] = ComputeMetadata(result[th].val, clock + 1)]
    /\ metadata' = StoreMetadata(metadata, ComputeMetadata(result[th].val, clock + 1))
    /\ pc' = [pc EXCEPT ![th] = "meta_report"]
    /\ UNCHANGED <<urls, with_metadata, main_pc, main_i, result, content, file_name,
                   tag_list, loop_i, asset_url, lock, writing, console, dirs, disk, fn>>

\* process_url: with self.lock, entered; print_metadata prints "Metadata:"
MetadataAcquire(th) ==
    /\ pc[th] = "meta_report"
    /\ lock = Free
    /\ lock' = th
    /\ writing' = writing \cup {th}
    /\ pc' = [pc EXCEPT ![th] = "meta_reporting"]
    /\ UNCHANGED <<urls, with_metadata, main_pc, main_i, result, content, file_name,
                   tag_list, loop_i, asset_url, metadata, clock, console, dirs, disk, fn, computed>>

\* print_metadata: the items of self.metadata are read and printed; the
\* lock is released
PrintMetadata(th) ==
    /\ pc[th] = "meta_reporting"
    /\ console' = console \cup {Line("metadata", th, urls[th[1]], <<>>, metadata)}
    /\ writing' = writing \ {th}
    /\ lock' = Free
    /\ pc' = [pc EXCEPT ![th] = "done"]
    /\ UNCHANGED <<urls, with_metadata, main_pc, main_i, result, content, file_name,
                   tag_list, loop_i, asset_url, metadata, clock, dirs, disk, fn, computed>>

-----------------------------------------------------------------------------
(* download_asset, run by thread th = <<t, k>>, k >= 1.                    *)

\* download_asset: the directory is made and the bytes are written; an
\* OSError raised by the file system ends the thread
WriteAsset(th) ==
    LET path == AssetFilePath(asset_url[th])
    IN  /\ pc[th] = "write"
        /\ \E ok \in FsOutcomes :
             IF ok
             THEN /\ dirs' = dirs \cup {[path |-> NormPath(Dirname(path)), by |-> th]}
                  /\ disk' = WriteFile(disk, BytesFile(path, th, result[th].val))
                  /\ pc' = [pc EXCEPT ![th] = "report"]
             ELSE /\ pc' = [pc EXCEPT ![th] = "raised"]
                  /\ UNCHANGED <<dirs, disk>>
        /\ UNCHANGED <<urls, with_metadata, main_pc, main_i, result, content, file_name,
                       tag_list, loop_i, asset_url, lock, metadata, clock, writing,
                       console, fn, computed>>

\* download_asset: with self.lock, entered; print("Downloaded asset ...") begins
AssetAcquire(th) ==
    /\ pc[th] = "report"
    /\ lock = Free
    /\ lock' = th
    /\ writing' = writing \cup {th}
    /\ pc' = [pc EXCEPT ![th] = "reporting"]
    /\ UNCHANGED <<urls, with_metadata, main_pc, main_i, result, content, file_name,
                   tag_list, loop_i, asset_url, metadata, clock, console, dirs, disk, fn, computed>>

\* A mutation of AssetRelease: the thread ends without releasing the lock.
AssetReleaseKeepsLock(th) ==
    /\ pc[th] = "reporting"
    /\ console' = console \cup {Line("asset", th, asset_url[th], <<>>, {})}
    /\ writing' = writing \ {th}
    /\ pc' = [pc EXCEPT ![th] = "done"]
    /\ UNCHANGED <<urls, with_metadata, main_pc, main_i, result, content, file_name,
                   tag_list, loop_i, asset_url, lock, metadata, clock, dirs, disk, fn, computed>>

\* download_asset: the print ends and the lock is released
AssetRelease(th) ==
    /\ pc[th] = "reporting"
    /\ console' = console \cup {Line("asset", th, asset_url[th], <<>>, {})}
    /\ writing' = writing \ {th}
    /\ lock' = Free
    /\ pc' = [pc EXCEPT ![th] = "done"]
    /\ UNCHANGED <<urls, with_metadata, main_pc, main_i, result, content, file_name,
                   tag_list, loop_i, asset_url, metadata, clock, dirs, disk, fn, computed>>

-----------------------------------------------------------------------------

Next ==
    \/ StartProcess
    \/ JoinProcess
    \/ \E th \in Threads : FetchOk(th)
    \/ \E th \in Threads : FetchFail(th)
    \/ \E th \in Threads : FetchError(th)
    \/ \E th \in PageThreads : SaveIndex(th)
    \/ \E th \in PageThreads : StartAsset(th)
    \/ \E th \in PageThreads : JoinAsset(th)
    \/ \E th \in PageThreads : ReportAcquire(th)
    \/ \E th \in PageThreads : ReportRelease(th)
    \/ \E th \in PageThreads : GetMetadata(th)
    \/ \E th \in PageThreads : MetadataAcquire(th)
    \/ \E th \in PageThreads : PrintMetadata(th)
    \/ \E th \in AssetThreads : WriteAsset(th)
    \/ \E th \in AssetThreads : AssetAcquire(th)
    \/ \E th \in AssetThreads : AssetRelease(th)

Spec == Init /\ [][Next]_vars

-----------------------------------------------------------------------------
(* Direct calls of the methods that compute without touching the shared    *)
(* state: one call per run, on arguments drawn from bounded sets.          *)

MaxRefLen == 3
MaxPathLen == 6

Strings(S, n) == UNION {[1..k -> S] : k \in 0..n}

\* Attribute values: up to MaxRefLen tokens, separators and one name.
FnRefs == Strings({SL, "a"}, MaxRefLen)

\* Elements carrying href, src or both.
FnTags == {"link", "script", "img", "a"}
FnAttrs == {[href |-> v] : v \in FnRefs} \cup {[src |-> v] : v \in FnRefs}
             \cup {[href |-> v, src |-> w] : v \in FnRefs, w \in FnRefs}
FnDocs == {<<[tag |-> t, attrs |-> a]>> : t \in FnTags, a \in FnAttrs}

\* URLs http://h<path>: no path, or a path of up to MaxPathLen tokens.
FnUrls == {<<"http:", SL, SL, "h">> \o p :
             p \in {<<>>} \cup {<<SL>> \o q : q \in Strings({SL, "a", "b"}, MaxPathLen - 1)}}

InitFn ==
    /\ urls = <<>>
    /\ with_metadata = FALSE
    /\ main_pc = "done"
    /\ InitFetcher

\* fetcher.remove_leading_slash(doc, ['link', 'script', 'img']), and the same
\* call on its result
CallRemoveLeadingSlash ==
    /\ fn.op = "none"
    /\ \E doc \in FnDocs :
         fn' = [op |-> "remove_leading_slash", url |-> <<>>, doc |-> doc,
                out_doc |-> remove_leading_slash(doc, AssetTags), out_path |-> <<>>,
                again |-> remove_leading_slash(remove_leading_slash(doc, AssetTags), AssetTags)]
    /\ UNCHANGED <<urls, with_metadata, main_pc, main_i, pc, result, content, file_name,
                   tag_list, loop_i, asset_url, lock, metadata, clock, writing, console,
                   dirs, disk, computed>>

\* save_to_file(url, ...): the file_name it computes and returns
CallFileName ==
    /\ fn.op = "none"
    /\ \E url \in FnUrls :
         fn' = [op |-> "file_name", url |-> url, doc |-> <<>>,
                out_doc |-> <<>>, out_path |-> PageFileName(url)]
    /\ UNCHANGED <<urls, with_metadata, main_pc, main_i, pc, result, content, file_name,
                   tag_list, loop_i, asset_url, lock, metadata, clock, writing, console,
                   dirs, disk, computed>>

\* Asset URLs: the URLs above, and each of them with a query ?a or ?b.
FnAssetUrls == FnUrls \cup {u \o <<QM, v>> : u \in FnUrls, v \in {"a", "b"}}

\* download_asset(asset_url, ...): the asset_file_path it computes, and the
\* one it computes for the same URL without its query
CallAssetFilePath ==
    /\ fn.op = "none"
    /\ \E url \in FnAssetUrls :
         LET u == Urlparse(url)
         IN  fn' = [op |-> "asset_file_path", url |-> url, doc |-> <<>>,
                    out_doc |-> <<>>, out_path |-> AssetFilePath(url),
                    out_plain |-> AssetFilePath(Urlunparse(u.scheme, u.netloc, u.path, <<>>))]
    /\ UNCHANGED <<urls, with_metadata, main_pc, main_i, pc, result, content, file_name,
                   tag_list, loop_i, asset_url, lock, metadata, clock, writing, console,
                   dirs, disk, computed>>

MaxArgs == 3

\* The command lines: the script name followed by up to MaxArgs arguments.
ArgLists == {<<"main.py">> \o a : a \in Strings({"--metadata", "url1", "url2"}, MaxArgs)}

\* main: the usage exit, or the arguments it passes to
\* download_and_print_metadata
CallMain ==
    /\ fn.op = "none"
    /\ \E argv \in ArgLists :
         fn' = IF Len(argv) < 2
               THEN [op |-> "main", argv |-> argv, exit |-> 1,
                     out_urls |-> <<>>, out_with_metadata |-> FALSE]
               ELSE [op |-> "main", argv |-> argv, exit |-> 0,
                     out_urls |-> From(argv, 3),
                     out_with_metadata |-> (\E i \in 1..Len(argv) : argv[i] = "--metadata")]
    /\ UNCHANGED <<urls, with_metadata, main_pc, main_i, pc, result, content, file_name,
                   tag_list, loop_i, asset_url, lock, metadata, clock, writing, console,
                   dirs, disk, computed>>

NextFn == CallRemoveLeadingSlash \/ CallFileName \/ CallAssetFilePath \/ CallMain

SpecFn == InitFn /\ [][NextFn]_vars

-----------------------------------------------------------------------------
(* Vocabulary of the properties.                                           *)

PageOf(th) == <<th[1], 0>>

Started(th) == pc[th] # "idle"

\* Thread th has run to its end, or was ended by an exception.
Ended(th) == pc[th] = "done" \/ pc[th] = "raised"

\* save_to_file has returned in process_url thread th.
Returned(th) ==
    pc[th] \in {"report", "reporting", "meta", "meta_report", "meta_reporting", "done"}
      /\ ~file_name[th].none

Printed(kind, th) == \E l \in console : l.kind = kind /\ l.by = th

\* fetch_content raised and returned None in thread th.
FetchFailed(th) == pc[th] = "error" \/ Printed("error", th)

\* fetch_content returned content (possibly empty) in thread th.
FetchSucceeded(th) == ~result[th].none

\* download_asset thread th has written its file.
Wrote(th) == pc[th] \in {"report", "reporting"} \/ Printed("asset", th)

\* The element thread th downloads, as fetched and as written to index.html.
OrigTag(th) == result[PageOf(th)].val[tag_list[PageOf(th)][th[2]]]
RewrittenTag(th) == content[PageOf(th)].val[tag_list[PageOf(th)][th[2]]]

\* The attribute whose value thread th downloads.
DownloadKey(th) ==
    LET tag == RewrittenTag(th)
    IN  IF "href" \in DOMAIN tag.attrs /\ tag.attrs["href"] # <<>> THEN "href"
        ELSE IF "src" \in DOMAIN tag.attrs THEN "src" ELSE "none"

RootAbsolute(v) == Len(v) >= 2 /\ v[1] = SL /\ v[2] # SL
Relative(v) == v # <<>> /\ v[1] # SL

-----------------------------------------------------------------------------
(* C1 *)

\* C1: when save_to_file has returned for a page, every download thread it
\* started has ended and none is running; and once the page's "Downloaded
\* <url> to <file>" line is on the console, no download thread of that page
\* can still print.
C1_SaveReturnsAfterDownloads ==
    \A th \in PageThreads :
      (Returned(th) \/ Printed("page", th)) =>
         /\ \A k \in 1..Len(tag_list[th]) : Ended(<<th[1], k>>)
         /\ \A k \in 1..MaxTags : k > Len(tag_list[th]) => ~Started(<<th[1], k>>)

C1_Witness ==
    \E th \in PageThreads :
      /\ Printed("page", th)
      /\ Len(tag_list[th]) >= 2
      /\ \A k \in 1..Len(tag_list[th]) : Printed("asset", <<th[1], k>>)

\* C2: every metadata block printed by the thread of a URL carries the link
\* count and the image count of the page that thread fetched.
C2_MetadataOfOwnPage ==
    \A l \in console :
      l.kind = "metadata" =>
         /\ <<"num_links", CountTag(result[l.by].val, "a")>> \in l.items
         /\ <<"images", CountTag(result[l.by].val, "img")>> \in l.items

\* C3: a thread inside a console write holds the lock, so no two threads
\* are inside a console write at once.
C3_EveryPrintHoldsLock ==
    /\ \A th \in writing : lock = th
    /\ Cardinality(writing) <= 1

\* C4: after download_and_print_metadata has returned, for any two distinct
\* URLs of the list whose pages were fetched, the index.html saved for each
\* holds that URL's own rewritten page.
C4_PagesNotOverwritten ==
    main_pc = "done" =>
      \A th \in PageThreads, other \in PageThreads :
        ( /\ Started(th) /\ Started(other)
          /\ FetchSucceeded(th) /\ FetchSucceeded(other)
          /\ urls[th[1]] # urls[other[1]] ) =>
           /\ Exists(file_name[th].val)
           /\ FileAt(file_name[th].val).html = remove_leading_slash(result[th].val, AssetTags)

\* C5: when save_to_file has returned for a page of which some asset fetch
\* failed, index.html is on disk, no failed download has written a file,
\* and every download whose fetch succeeded (and that met no file-system
\* error) has its file on disk.
C5_FailedAssetSkippedOthersWritten ==
    \A th \in PageThreads :
      ( /\ Returned(th)
        /\ \E k \in 1..Len(tag_list[th]) : FetchFailed(<<th[1], k>>) ) =>
         /\ Exists(file_name[th].val)
         /\ \A k \in 1..Len(tag_list[th]) :
              LET a == <<th[1], k>>
              IN  /\ FetchFailed(a) => \A f \in disk : f.by # a
                  /\ (FetchSucceeded(a) /\ pc[a] # "raised") =>
                        Exists(AssetFilePath(asset_url[a]))

\* C6: a process_url thread whose page fetch failed makes no directory,
\* writes no file, starts no download and prints neither a success line
\* nor metadata; and when download_and_print_metadata has returned, every
\* other thread whose page was fetched has ended with its page saved and
\* reported.
C6_FailedPageLeavesNoTrace ==
    /\ \A th \in PageThreads :
         FetchFailed(th) =>
            /\ file_name[th].none
            /\ \A d \in dirs : d.by # th
            /\ \A f \in disk : f.by # th
            /\ \A k \in 1..MaxTags : ~Started(<<th[1], k>>)
            /\ ~Printed("page", th) /\ ~Printed("metadata", th)
    /\ main_pc = "done" =>
         \A th \in PageThreads :
            (Started(th) /\ ~FetchFailed(th)) =>
               /\ pc[th] = "done"
               /\ Exists(file_name[th].val)
               /\ Printed("page", th)

C6_Witness ==
    /\ main_pc = "done"
    /\ \E th \in PageThreads : FetchFailed(th) /\ pc[th] = "done"
    /\ \E th \in PageThreads : Printed("page", th) /\ Exists(file_name[th].val)

\* C7: remove_leading_slash removes exactly one leading "/" from the value
\* it rewrites: the value of the href (or, without href, of the src) of a
\* link, script or img element that starts with "/" loses that one token
\* and nothing more, so "/x" becomes "x" and "//host/x" becomes "/host/x".
C7_ExactlyOneSlashRemoved ==
    fn.op = "remove_leading_slash" =>
      \A i \in 1..Len(fn.doc) :
        LET tag == fn.doc[i]
            key == IF "href" \in DOMAIN tag.attrs THEN "href" ELSE "src"
            old == tag.attrs[key]
        IN  (tag.tag \in {"link", "script", "img"} /\ old # <<>> /\ old[1] = SL) =>
               fn.out_doc[i].attrs[key] = Tail(old)

\* C8: a download thread started for a root-absolute reference /d/f of a
\* page fetches <scheme>://<host>/d/f, and writes its file at
\* <cwd>/<host>/d/f, whatever the path of the page's URL.
C8_RootAbsoluteAssetUnderOwnPath ==
    \A a \in AssetThreads :
      (Started(a) /\ RootAbsolute(HrefOrSrc(OrigTag(a)))) =>
         LET ref == HrefOrSrc(OrigTag(a))
             u   == Urlparse(urls[a[1]])
         IN  /\ asset_url[a] = Urlunparse(u.scheme, u.netloc, ref, <<>>)
             /\ Wrote(a) =>
                  \E f \in disk :
                    f.path = NonEmpty(Split(Getcwd)) \o <<u.netloc>> \o NonEmpty(Split(ref))

\* C9: for a download thread that has written its file, if the reference it
\* downloads is relative or root-absolute in the fetched page, then the
\* value of that reference in index.html, taken relative to the directory
\* of index.html, is the path of the file the thread wrote.
C9_MirrorResolvesFromDisk ==
    \A a \in AssetThreads :
      (Wrote(a) /\ DownloadKey(a) # "none") =>
         LET key  == DownloadKey(a)
             orig == OrigTag(a).attrs[key]
             here == Dirname(file_name[PageOf(a)].val)
         IN  (Relative(orig) \/ RootAbsolute(orig)) =>
                NormPath(PathJoin(here, RewrittenTag(a).attrs[key]))
                   = NormPath(AssetFilePath(asset_url[a]))

\* C10: the page of a URL is saved at <cwd>/<host>/<the segments of the URL
\* path but the last>/index.html; a URL without a path is saved at
\* <cwd>/<host>/index.html.
C10_PageSavedUnderDirectoryPart ==
    fn.op = "file_name" =>
      LET u    == Urlparse(fn.url)
          segs == Split(u.path)
      IN  NormPath(fn.out_path)
            = <<<<"cwd">>, u.netloc>> \o NonEmpty(SubSeq(segs, 1, Len(segs) - 1))
                \o <<<<"index.html">>>>

C10_Witness ==
    /\ fn.op = "file_name"
    /\ fn.url = <<"http:", SL, SL, "h", SL, "a", SL, "b", SL, "a">>
    /\ NormPath(fn.out_path) = <<<<"cwd">>, <<"h">>, <<"a">>, <<"b">>, <<"index.html">>>>

\* C11: the file download_asset writes for an asset URL whose path names a
\* file is the directory of the URL joined with the last segment of the
\* URL's path alone, so that a URL with a query is written to the file of
\* the same URL without its query.
C11_FileNamedByPathOnly ==
    fn.op = "asset_file_path" =>
      LET u == Urlparse(fn.url)
      IN  Basename(u.path) # <<>> =>
            /\ NormPath(fn.out_path)
                 = NormPath(PathJoin(get_directory_name(fn.url), Basename(u.path)))
            /\ NormPath(fn.out_path) = NormPath(fn.out_plain)

\* C13: when the command line names a URL, main passes to
\* download_and_print_metadata every argument other than --metadata, in
\* order, and with_metadata is true exactly when --metadata is among the
\* arguments, wherever it stands.
C13_EveryOtherArgumentIsAUrl ==
    fn.op = "main" =>
      LET args == Tail(fn.argv)
          given == SelectSeq(args, LAMBDA a : a # "--metadata")
      IN  given # <<>> =>
            /\ fn.exit = 0
            /\ fn.out_urls = given
            /\ fn.out_with_metadata = (\E i \in 1..Len(args) : args[i] = "--metadata")

\* C19: remove_leading_slash keeps the elements, their tags and their
\* attribute names; it returns unchanged every element whose tag is not
\* link, script or img, and every href or src value that does not start
\* with "/"; applied to its own result it changes nothing.
C19_RewriteTouchesOnlyAssetReferences ==
    fn.op = "remove_leading_slash" =>
      /\ Len(fn.out_doc) = Len(fn.doc)
      /\ \A i \in 1..Len(fn.doc) :
           LET old == fn.doc[i]
               new == fn.out_doc[i]
           IN  /\ new.tag = old.tag
               /\ DOMAIN new.attrs = DOMAIN old.attrs
               /\ old.tag \notin {"link", "script", "img"} => new = old
               /\ \A a \in DOMAIN old.attrs :
                    (old.attrs[a] = <<>> \/ old.attrs[a][1] # SL) =>
                       new.attrs[a] = old.attrs[a]
      /\ fn.again = fn.out_doc

C19_Witness ==
    /\ fn.op = "remove_leading_slash"
    /\ fn.doc = <<[tag |-> "a", attrs |-> [href |-> <<SL, "a">>, src |-> <<"a", SL>>]]>>
    /\ fn.out_doc = fn.doc
    /\ fn.again = fn.doc

\* C12: when save_to_file has returned for a page, every download thread of
\* the page whose fetch returned a body (an empty body included) and that met
\* no filesystem error has left a file at the asset's local path holding
\* exactly the fetched bytes.
C12_FetchedBytesAreOnDisk ==
    \A th \in PageThreads :
      Returned(th) =>
        \A k \in 1..Len(tag_list[th]) :
          LET a == <<th[1], k>>
          IN  (FetchSucceeded(a) /\ pc[a] # "raised") =>
                \E f \in disk :
                  /\ f.path = NormPath(AssetFilePath(asset_url[a]))
                  /\ f.html = <<>>
                  /\ f.bytes = result[a].val

\* C15: once save_to_file has started all its download threads for a page,
\* their number equals the number of link, script and img elements of the
\* page that carry an href or a src attribute, and no two of the threads
\* were started for the same element.
C15_OneDownloadPerElement ==
    \A th \in PageThreads :
      (pc[th] = "join" \/ Returned(th)) =>
        LET doc     == result[th].val
            names   == {AssetTags[i] : i \in 1..Len(AssetTags)}
            els     == {i \in 1..Len(doc) :
                          /\ doc[i].tag \in names
                          /\ ("href" \in DOMAIN doc[i].attrs \/ "src" \in DOMAIN doc[i].attrs)}
            started == {k \in 1..MaxTags : Started(<<th[1], k>>)}
        IN  /\ Cardinality(started) = Cardinality(els)
            /\ \A j, k \in started : j # k => tag_list[th][j] # tag_list[th][k]

\* C14: once download_and_print_metadata has left its start loop, the
\* process_url threads started are exactly one per position of the URL list
\* (a URL listed twice has two threads), thread i working on urls[i]; while
\* the loop runs, the threads started are those of the positions already
\* passed; and when download_and_print_metadata has returned every one of
\* them has ended.
C14_OneThreadPerListedUrlAllJoined ==
    LET started == {t \in 1..MaxUrls : Started(<<t, 0>>)}
    IN  /\ main_pc = "spawn" => started = 1..(main_i - 1)
        /\ main_pc \in {"join", "done"} => started = 1..Len(urls)
        /\ main_pc = "join" => \A t \in 1..(main_i - 1) : Ended(<<t, 0>>)
        /\ main_pc = "done" => \A t \in 1..Len(urls) : Ended(<<t, 0>>)

C14_Witness ==
    /\ main_pc = "done"
    /\ Len(urls) = 2
    /\ urls[1] = urls[2]
    /\ Printed("page", <<1, 0>>)
    /\ Printed("page", <<2, 0>>)

\* C18: a download thread is started only after the page's index.html has
\* been written, and while save_to_file is in its join loop every download
\* thread of the page has been started: no join happens while a listed
\* element of the same page still has no thread.
C18_AllStartedBeforeAnyJoin ==
    \A th \in PageThreads :
      /\ (\E k \in 1..MaxTags : Started(<<th[1], k>>)) =>
            /\ ~file_name[th].none
            /\ Exists(file_name[th].val)
      /\ pc[th] = "join" =>
            /\ Exists(file_name[th].val)
            /\ \A k \in 1..Len(tag_list[th]) : Started(<<th[1], k>>)
      /\ pc[th] = "spawn" =>
            \A k \in 1..Len(tag_list[th]) : Started(<<th[1], k>>) <=> k < loop_i[th]

C18_Witness ==
    \E th \in PageThreads :
      /\ pc[th] = "join"
      /\ Len(tag_list[th]) = 2
      /\ loop_i[th] = 2
      /\ Ended(<<th[1], 1>>)
      /\ pc[<<th[1], 2>>] = "fetch"

\* C17: when a download thread of a page was ended by a filesystem error,
\* the page's process_url thread is not ended by it; once save_to_file has
\* returned, every other download thread of the page has ended and each of
\* them whose fetch succeeded and that met no filesystem error itself has
\* its file on disk; and once download_and_print_metadata has returned, the
\* page's "Downloaded" line is printed and every other page whose fetch
\* succeeded has run to its end and printed its line too.
C17_FsErrorEndsOnlyItsThread ==
    \A th \in PageThreads :
      \A k \in 1..Len(tag_list[th]) :
        pc[<<th[1], k>>] = "raised" =>
          /\ pc[th] # "raised"
          /\ Returned(th) =>
               \A j \in 1..Len(tag_list[th]) :
                 LET a == <<th[1], j>>
                 IN  /\ Ended(a)
                     /\ (j # k /\ FetchSucceeded(a) /\ pc[a] # "raised") =>
                           Exists(AssetFilePath(asset_url[a]))
          /\ main_pc = "done" =>
               /\ Returned(th)
               /\ Printed("page", th)
               /\ \A o \in PageThreads :
                    FetchSucceeded(o) => pc[o] = "done" /\ Printed("page", o)

\* C16: every printed metadata block is the dict built by one get_metadata
\* call: its items are exactly the num_links, images and last_fetch items
\* that one thread computed from its own page, never items of two calls.
C16_MetadataBlockIsWhole ==
    \A l \in console :
      l.kind = "metadata" =>
        \E o \in PageThreads :
          /\ computed[o] # {}
          /\ l.items = computed[o]
          /\ <<"num_links", CountTag(result[o].val, "a")>> \in l.items
          /\ <<"images", CountTag(result[o].val, "img")>> \in l.items
          /\ Cardinality(l.items) = 3

\* Two threads have overwritten each other's metadata: a thread has printed
\* the block another thread computed from a different page.
C16_Witness ==
    \E l \in console :
      /\ l.kind = "metadata"
      /\ computed[l.by] # {}
      /\ l.items # computed[l.by]
      /\ \E o \in PageThreads :
           /\ o # l.by
           /\ l.items = computed[o]
           /\ result[o].val # result[l.by].val

\* The lock is free or held by a thread that is inside one of the three
\* locked console writes: never by a thread that waits in a join, waits for
\* a fetch, writes a file, or has ended.
LockHeldOnlyAroundPrints ==
    \/ lock = Free
    \/ /\ lock \in Threads
       /\ pc[lock] \in {"reporting", "meta_reporting"}
       /\ lock \in writing

\* Thread th waits: in a join for a thread that has not ended, or for the
\* lock while another thread holds it.
Waits(th) ==
    \/ th[2] = 0 /\ pc[th] = "join" /\ ~Ended(<<th[1], loop_i[th]>>)
    \/ pc[th] \in {"report", "meta_report"} /\ lock # Free

\* Some thread can take a step: the main thread in one of its loops, or a
\* started thread that has not ended and does not wait.
CanStep ==
    \/ main_pc = "spawn"
    \/ main_pc = "join" /\ Ended(<<main_i, 0>>)
    \/ \E th \in Threads : Started(th) /\ ~Ended(th) /\ ~Waits(th)

\* How far a thread is from its end, counted in steps of its code.
PcRank(p) ==
    CASE p = "idle" -> 13
      [] p = "fetch" -> 12
      [] p = "error" -> 11
      [] p = "save" -> 10
      [] p = "spawn" -> 9
      [] p = "join" -> 8
      [] p = "write" -> 7
      [] p = "report" -> 6
      [] p = "reporting" -> 5
      [] p = "meta" -> 4
      [] p = "meta_report" -> 3
      [] p = "meta_reporting" -> 2
      [] OTHER -> 0

StepsLeft(p, li, th) ==
    PcRank(p[th]) * (MaxTags + 1)
      + (IF th[2] = 0 /\ p[th] = "join" THEN MaxTags + 1 - li[th] ELSE 0)

MainStepsLeft(mp, mi) ==
    IF mp = "spawn" THEN 2 * (MaxUrls + 1)
    ELSE IF mp = "join" THEN 2 * (MaxUrls + 1) - mi
    ELSE 0

\* The steps left of the threads <<t, k>>, <<t, k + 1>>, ... and of all the
\* threads of the URLs after t.
RECURSIVE SumStepsLeft(_, _, _, _)
SumStepsLeft(p, li, t, k) ==
    IF t > MaxUrls THEN 0
    ELSE IF k > MaxTags THEN SumStepsLeft(p, li, t + 1, 0)
    ELSE StepsLeft(p, li, <<t, k>>) + SumStepsLeft(p, li, t, k + 1)

\* A bound on the number of steps the run can still take, for the values
\* mp, mi, p and li of main_pc, main_i, pc and loop_i.
Measure(mp, mi, p, li) == MainStepsLeft(mp, mi) + SumStepsLeft(p, li, 1, 0)

\* C20: the lock is held only around console writes, never by a thread that
\* waits in a join, for a fetch or in a file write, and never by a thread
\* that has ended; as long as download_and_print_metadata has not returned,
\* some thread can take a step (no deadlock); and every step of the run
\* lowers a bound on the steps left, so no run goes on for ever: with
\* fetches that return, download_and_print_metadata returns.
C20_DeadlockFreeAndTerminates ==
    /\ [](LockHeldOnlyAroundPrints /\ (main_pc = "done" \/ CanStep))
    /\ [](Measure(main_pc, main_i, pc, loop_i) \in Nat)
    /\ [][Measure(main_pc', main_i', pc', loop_i') < Measure(main_pc, main_i, pc, loop_i)]_vars

C20_Witness ==
    /\ main_pc = "done"
    /\ lock = Free
    /\ Measure(main_pc, main_i, pc, loop_i) = 0
    /\ Len(urls) = 2
    /\ \A t \in 1..2 : \E l \in console : l.kind = "metadata" /\ l.by = <<t, 0>>
    /\ \E th \in AssetThreads : pc[th] = "raised"
    /\ \E th \in AssetThreads : Printed("error", th)
    /\ \E th \in AssetThreads : Printed("asset", th)

=============================================================================
